---- MODULE Spec2Model ----
(***************************************************************************)
(* A model of the static file server of main.py: a Flask application with  *)
(* static_folder='public', static_url_path='' and two view functions,      *)
(* index (GET /) and serve_static (GET /<path:path>), both returning       *)
(* send_from_directory('public', ...).                                     *)
(*                                                                         *)
(* A path is a record [abs, segs]: abs tells whether it starts with "/",   *)
(* segs is the sequence of its "/"-separated components.  The file system  *)
(* maps canonical absolute paths to "none", "dir" or the contents of a     *)
(* regular file.  There are no symbolic links and every file is readable.  *)
(* Request paths have non-empty components (no "//", no trailing "/").     *)
(***************************************************************************)
EXTENDS Naturals, Sequences, FiniteSets, TLC

VARIABLES
    fs,             \* the file system: canonical absolute path -> node
    static_folder,  \* app.static_folder, fixed by the Flask constructor
    serving,        \* app.run's serve loop is alive
    pc,             \* per worker thread: "idle", "routed" or "done"
    req,            \* per worker thread: the request [url, endpoint]
    resp,           \* per worker thread: the response of the view function
    solo,           \* per worker thread: no other request was in flight
    failed          \* some request has ended with a status other than 200

vars == <<fs, static_folder, serving, pc, req, resp, solo, failed>>

\* Longest request path, in components.
MaxSegs == 2

Workers == {"w1", "w2"}

Names == {"index.html", "d"}
Segs == Names \cup {".."}
Contents == {"A", "B"}

Abs(s) == [abs |-> TRUE, segs |-> s]
Rel(s) == [abs |-> FALSE, segs |-> s]

\* Request paths: "/" is the empty sequence.
Urls == {<<>>} \cup UNION {[1..k -> Segs] : k \in 1..MaxSegs}

\* The directory holding main.py (Flask(__name__) makes it app.root_path).
RootPath == Abs(<<"app">>)

\* ---------------------------------------------------------------- paths

IsPrefix(s, t) == Len(s) <= Len(t) /\ SubSeq(t, 1, Len(s)) = s

\* os.path.join(a, b)
OsPathJoin(a, b) ==
    IF b.abs THEN b ELSE [abs |-> a.abs, segs |-> a.segs \o b.segs]

\* The loop of posixpath.normpath over the components of a path.
RECURSIVE NormComps(_, _, _)
NormComps(comps, new, initial) ==
    IF comps = <<>> THEN new
    ELSE LET comp == Head(comps)
             rest == Tail(comps)
         IN  IF comp \in {"", "."}
                 THEN NormComps(rest, new, initial)
             ELSE IF \/ comp # ".."
                     \/ (~initial /\ new = <<>>)
                     \/ (new # <<>> /\ new[Len(new)] = "..")
                 THEN NormComps(rest, Append(new, comp), initial)
             ELSE IF new # <<>>
                 THEN NormComps(rest, SubSeq(new, 1, Len(new) - 1), initial)
             ELSE NormComps(rest, new, initial)

\* posixpath.normpath: "" becomes "."
NormPath(p) ==
    LET n == NormComps(p.segs, <<>>, p.abs)
    IN  [abs |-> p.abs, segs |-> IF n = <<>> /\ ~p.abs THEN <<".">> ELSE n]

NoPath == [none |-> TRUE, path |-> Rel(<<>>)]
SomePath(p) == [none |-> FALSE, path |-> p]

\* werkzeug.security.safe_join(directory, filename)
SafeJoin(directory, filename) ==
    LET f == IF filename.segs # <<>> THEN NormPath(filename) ELSE filename
    IN  IF f.abs \/ (f.segs # <<>> /\ f.segs[1] = "..")
            THEN NoPath
            ELSE SomePath(OsPathJoin(directory, f))

\* ---------------------------------------------------------- file system

PublicDir == <<"app", "public">>
Outside == <<"app", "index.html">>
Mutable == { PublicDir \o <<"index.html">>,
             PublicDir \o <<"d">>,
             PublicDir \o <<"d", "index.html">> }
Nodes == {<<"app">>, PublicDir, Outside} \cup Mutable

Parent(c) == SubSeq(c, 1, Len(c) - 1)

Kind(c) == IF c = <<>> THEN "dir" ELSE IF c \in DOMAIN fs THEN fs[c] ELSE "none"

\* The kernel's path walk: the canonical path a path names, or <<"ENOENT">>.
RECURSIVE Walk(_, _)
Walk(cur, segs) ==
    IF Kind(cur) = "none" THEN <<"ENOENT">>
    ELSE IF segs = <<>> THEN cur
    ELSE IF Kind(cur) # "dir" THEN <<"ENOENT">>
    ELSE LET s == Head(segs)
         IN  IF s \in {"", "."} THEN Walk(cur, Tail(segs))
             ELSE IF s = ".."
                 THEN Walk(IF cur = <<>> THEN cur ELSE Parent(cur), Tail(segs))
             ELSE Walk(Append(cur, s), Tail(segs))

\* Relative paths are never handed to the kernel: _root_path is absolute.
RealPath(p) == Walk(<<>>, p.segs)

\* os.path.isfile
IsFile(p) == Kind(RealPath(p)) \notin {"none", "dir"}

\* ------------------------------------------------------------ responses

NoFile == <<>>
Response(status, body, file) == [status |-> status, body |-> body, file |-> file]

\* werkzeug.exceptions.NotFound, rendered by Flask's error handling
NotFound == Response(404, "Not Found", NoFile)

\* werkzeug.utils.send_file: open the file and stream its bytes
SendFile(p) == Response(200, Kind(RealPath(p)), RealPath(p))

\* The end of send_from_directory, once path_str is known.
SendIfFile(path_str) ==
    IF ~IsFile(path_str) THEN NotFound ELSE SendFile(path_str)

\* werkzeug.utils.send_from_directory(directory, path, _root_path=...).
\* The singleton set binds path_str to its value, as the assignment does.
WerkzeugSendFromDirectory(directory, path, root_path) ==
    LET joined == SafeJoin(directory, path)
    IN  IF joined.none THEN NotFound
        ELSE CHOOSE r \in { SendIfFile(path_str) :
                              path_str \in {OsPathJoin(root_path, joined.path)} } :
                 TRUE

\* flask.send_from_directory: werkzeug's, with _root_path = app.root_path
SendFromDirectory(directory, path) ==
    WerkzeugSendFromDirectory(directory, path, RootPath)

\* Fault: the constructor is left with Flask's default static folder.
StaticFolderArg_default == Rel(<<"static">>)

\* Flask(__name__, static_folder='public', static_url_path='')
StaticFolderArg == Rel(<<"public">>)

\* Flask.send_static_file, the view function of the built-in static route
SendStaticFile(filename) == SendFromDirectory(static_folder, filename)

\* Fault: index serves from the directory of main.py.
index_appdir == SendFromDirectory(Rel(<<".">>), Rel(<<"index.html">>))

\* def index()
index == SendFromDirectory(Rel(<<"public">>), Rel(<<"index.html">>))

\* Fault: serve_static serves from the directory of main.py.
serve_static_appdir(path) == SendFromDirectory(Rel(<<".">>), path)

\* Fault: serve_static opens os.path.join('public', path) itself.
serve_static_unsafe(path) ==
    LET p == OsPathJoin(RootPath, OsPathJoin(Rel(<<"public">>), path))
    IN  IF IsFile(p) THEN SendFile(p) ELSE NotFound

\* Fault: serve_static falls back to the entry file when nothing is found.
serve_static_fallback(path) ==
    LET r == SendFromDirectory(Rel(<<"public">>), path)
    IN  IF r.status = 404
            THEN SendFromDirectory(Rel(<<"public">>), Rel(<<"index.html">>))
            ELSE r

\* Fault: serve_static tests os.path.exists where isfile is meant.
serve_static_exists(path) ==
    LET joined == SafeJoin(Rel(<<"public">>), path)
        p == OsPathJoin(RootPath, joined.path)
    IN  IF joined.none \/ Kind(RealPath(p)) = "none" THEN NotFound ELSE SendFile(p)

\* def serve_static(path)
serve_static(path) == SendFromDirectory(Rel(<<"public">>), path)

\* The URL map: "/" -> index; "/<path:filename>" -> static (registered by
\* the constructor) and "/<path:path>" -> serve_static.
Match(url) == IF url = <<>> THEN {"index"} ELSE {"static", "serve_static"}

\* Fault: the bound arguments live in one slot shared by all threads.
ViewArgs_shared(w) ==
    Rel(req[CHOOSE v \in Workers : pc[v] = "routed"].url)

\* The arguments the router binds for a worker's view function.
ViewArgs(w) == Rel(req[w].url)

Dispatch(endpoint, args) ==
    CASE endpoint = "index" -> index
      [] endpoint = "static" -> SendStaticFile(args)
      [] endpoint = "serve_static" -> serve_static(args)

\* Fault: a failed request ends the serve loop.
KeepServing_fatal(r) == r.status = 200

\* No response ends the serve loop.
KeepServing(r) == TRUE

\* --------------------------------------------------------------- actions

NoReq == [url |-> <<>>, endpoint |-> "none"]
NoResp == Response(0, "", NoFile)

Init ==
    /\ fs \in {f \in [Nodes -> {"none", "dir"} \cup Contents \cup {"S"}] :
                 /\ f[<<"app">>] = "dir"
                 /\ f[PublicDir] = "dir"
                 /\ f[Outside] = "S"
                 /\ \A m \in Mutable :
                      /\ f[m] # "S"
                      /\ f[m] # "none" => f[Parent(m)] = "dir"}
    /\ static_folder = OsPathJoin(RootPath, StaticFolderArg)
    /\ serving = TRUE
    /\ pc = [w \in Workers |-> "idle"]
    /\ req = [w \in Workers |-> NoReq]
    /\ resp = [w \in Workers |-> NoResp]
    /\ solo = [w \in Workers |-> TRUE]
    /\ failed = FALSE

\* A worker thread takes GET url and the router picks the view function.
Accept(w, url) ==
    /\ serving
    /\ pc[w] = "idle"
    /\ \E e \in Match(url) :
         req' = [req EXCEPT ![w] = [url |-> url, endpoint |-> e]]
    /\ pc' = [pc EXCEPT ![w] = "routed"]
    /\ solo' = [v \in Workers |->
                  IF v = w THEN \A x \in Workers \ {w} : pc[x] # "routed"
                  ELSE IF pc[v] = "routed" THEN FALSE ELSE solo[v]]
    /\ UNCHANGED <<fs, static_folder, serving, resp, failed>>

\* Fault: the view function moves the file it has served out of the way.
Handle_once(w) ==
    /\ serving
    /\ pc[w] = "routed"
    /\ \E r \in {Dispatch(req[w].endpoint, ViewArgs(w))} :
         /\ resp' = [resp EXCEPT ![w] = r]
         /\ serving' = KeepServing(r)
         /\ failed' = (failed \/ r.status # 200)
         /\ fs' = IF r.status = 200 THEN [fs EXCEPT ![r.file] = "none"] ELSE fs
    /\ pc' = [pc EXCEPT ![w] = "done"]
    /\ UNCHANGED <<static_folder, req, solo>>

\* Fault: the view function leaves a note of the request in the directory.
Handle_writes(w) ==
    /\ serving
    /\ pc[w] = "routed"
    /\ \E r \in {Dispatch(req[w].endpoint, ViewArgs(w))} :
         /\ resp' = [resp EXCEPT ![w] = r]
         /\ serving' = KeepServing(r)
         /\ failed' = (failed \/ r.status # 200)
    /\ fs' = [fs EXCEPT ![PublicDir \o <<"d">>] = IF @ = "none" THEN "A" ELSE @]
    /\ pc' = [pc EXCEPT ![w] = "done"]
    /\ UNCHANGED <<static_folder, req, solo>>

\* The worker thread runs the view function.
Handle(w) ==
    /\ serving
    /\ pc[w] = "routed"
    /\ \E r \in {Dispatch(req[w].endpoint, ViewArgs(w))} :
         /\ resp' = [resp EXCEPT ![w] = r]
         /\ serving' = KeepServing(r)
         /\ failed' = (failed \/ r.status # 200)
    /\ pc' = [pc EXCEPT ![w] = "done"]
    /\ UNCHANGED <<fs, static_folder, req, solo>>

\* The response has been sent; the worker thread is free again.
Reply(w) ==
    /\ pc[w] = "done"
    /\ pc' = [pc EXCEPT ![w] = "idle"]
    /\ req' = [req EXCEPT ![w] = NoReq]
    /\ resp' = [resp EXCEPT ![w] = NoResp]
    /\ solo' = [solo EXCEPT ![w] = TRUE]
    /\ UNCHANGED <<fs, static_folder, serving, failed>>

\* Somebody else changes the directory.  A response in hand was computed
\* from the directory as it is now: changes wait for responses to be sent.
Quiet == \A w \in Workers : pc[w] # "done"

EnvWrite(m, c) ==
    /\ Quiet
    /\ fs[Parent(m)] = "dir"
    /\ fs[m] \notin {"dir", c}
    /\ fs' = [fs EXCEPT ![m] = c]
    /\ UNCHANGED <<static_folder, serving, pc, req, resp, solo, failed>>

EnvMkdir(m) ==
    /\ Quiet
    /\ fs[Parent(m)] = "dir"
    /\ fs[m] = "none"
    /\ fs' = [fs EXCEPT ![m] = "dir"]
    /\ UNCHANGED <<static_folder, serving, pc, req, resp, solo, failed>>

EnvRemove(m) ==
    /\ Quiet
    /\ fs[m] # "none"
    /\ \A n \in Mutable : Parent(n) = m => fs[n] = "none"
    /\ fs' = [fs EXCEPT ![m] = "none"]
    /\ UNCHANGED <<static_folder, serving, pc, req, resp, solo, failed>>

Next ==
    \/ \E w \in Workers, url \in Urls : Accept(w, url)
    \/ \E w \in Workers : Handle(w)
    \/ \E w \in Workers : Reply(w)
    \/ \E m \in Mutable, c \in Contents : EnvWrite(m, c)
    \/ \E m \in Mutable : EnvMkdir(m)
    \/ \E m \in Mutable : EnvRemove(m)

Spec == Init /\ [][Next]_vars

\* Every worker thread is scheduled: a routed request is handled and a
\* finished response is sent.
Fairness == \A w \in Workers : WF_vars(Handle(w)) /\ WF_vars(Reply(w))

\* The server over a directory nobody changes, asked for "/" and for paths
\* of one component, with its threads scheduled fairly.
LiveUrls == {u \in Urls : Len(u) <= 1}

LiveNext ==
    \/ \E w \in Workers, url \in LiveUrls : Accept(w, url)
    \/ \E w \in Workers : Handle(w)
    \/ \E w \in Workers : Reply(w)

LiveSpec == Init /\ [][LiveNext]_vars /\ Fairness

\* ---------------------------------------------------------------- claims

Done(w) == pc[w] = "done"
FileKinds == Contents \cup {"S"}

\* Where a request path points, component by component from the root
\* directory, ".." meaning the directory above.
RECURSIVE Lexical(_, _)
Lexical(cur, segs) ==
    IF segs = <<>> THEN cur
    ELSE IF Head(segs) = ".."
        THEN Lexical(IF cur = <<>> THEN cur ELSE Parent(cur), Tail(segs))
        ELSE Lexical(Append(cur, Head(segs)), Tail(segs))

EntryFile == PublicDir \o <<"index.html">>
Target(url) == IF url = <<>> THEN EntryFile ELSE Lexical(PublicDir, url)
UnderRoot(c) == IsPrefix(PublicDir, c) /\ c # PublicDir
Escapes(url) == ~IsPrefix(PublicDir, Lexical(PublicDir, url))
OutsideBytes == {fs[n] : n \in {x \in Nodes : ~UnderRoot(x)}} \cap FileKinds
SameAnswer(r1, r2) == r1.status = r2.status /\ r1.body = r2.body
Alone(r) == Dispatch(r.endpoint, Rel(r.url))

\* C1: GET /f, for f the path under the root directory of a regular file
\* that exists now, is answered 200 with the file's present contents.
C1_ExistingFileIsServed ==
    \A w \in Workers, m \in Mutable :
        (Done(w) /\ PublicDir \o req[w].url = m /\ fs[m] \in FileKinds)
            => (resp[w].status = 200 /\ resp[w].body = fs[m])

C1_Witness ==
    \E w \in Workers :
        /\ Done(w) /\ req[w] = [url |-> <<"d", "index.html">>, endpoint |-> "serve_static"]
        /\ fs[PublicDir \o <<"d", "index.html">>] = "B"
        /\ resp[w].body = "B"

\* C2: a request path that leads out of the root directory is answered with
\* a status other than 200 and with no bytes of a file outside the root
\* directory, and every file a view function has read lies under the root
\* directory.
C2_TraversalIsRefused ==
    \A w \in Workers :
        Done(w) =>
            /\ Escapes(req[w].url) =>
                  (resp[w].status # 200 /\ resp[w].body \notin OutsideBytes)
            /\ resp[w].file # NoFile => UnderRoot(resp[w].file)

C2_Witness ==
    \E w \in Workers :
        /\ Done(w) /\ req[w] = [url |-> <<"..", "index.html">>, endpoint |-> "serve_static"]
        /\ Kind(Target(req[w].url)) = "S"
        /\ resp[w].status = 404

\* C3: a GET whose target does not exist is answered 404, both GET /<path>
\* with nothing at the path and GET / with no index.html in the root
\* directory.
C3_MissingIsNotFound ==
    \A w \in Workers :
        (Done(w) /\ Kind(Target(req[w].url)) = "none") => resp[w].status = 404

C3_Witness ==
    /\ fs[EntryFile] = "none"
    /\ \E w \in Workers : Done(w) /\ req[w].url = <<>> /\ resp[w].status = 404
    /\ \E w \in Workers :
         /\ Done(w) /\ req[w] = [url |-> <<"d", "d">>, endpoint |-> "serve_static"]
         /\ resp[w].status = 404

\* C4: whatever the root directory holds, GET / and GET /index.html are
\* answered with the same status and the same body.
C4_RootIsIndexHtml ==
    \A w1, w2 \in Workers :
        (Done(w1) /\ Done(w2) /\ req[w1].url = <<>> /\ req[w2].url = <<"index.html">>)
            => SameAnswer(resp[w1], resp[w2])

C4_Witness ==
    \E w1, w2 \in Workers :
        /\ Done(w1) /\ Done(w2)
        /\ req[w1].url = <<>> /\ req[w2].url = <<"index.html">>
        /\ resp[w1].status = 200 /\ resp[w1].body = "A"

\* C5: the same GET request, repeated, is answered with the same status
\* and body: an answer still in hand equals the answer to its repetition.
C5_Idempotent ==
    \A w1, w2 \in Workers :
        (Done(w1) /\ Done(w2) /\ req[w1] = req[w2])
            => SameAnswer(resp[w1], resp[w2])

C5_Witness ==
    \E w1, w2 \in Workers :
        /\ w1 # w2 /\ Done(w1) /\ Done(w2) /\ req[w1] = req[w2]
        /\ solo[w1] /\ solo[w2]
        /\ resp[w1].status = 200 /\ req[w1].url # <<>>

C7_ReadOnly ==
    [][/\ static_folder' = static_folder
       /\ pc' # pc => fs' = fs]_vars

C7_Witness ==
    \E w1, w2 \in Workers :
        /\ Done(w1) /\ Done(w2)
        /\ resp[w1].status = 200 /\ resp[w2].status = 404
        /\ static_folder = Abs(PublicDir)

\* C8: GET /<path> for a path that points, under or at the root directory,
\* at something that exists and is no regular file is answered 404.
C8_DirectoryIsNotFound ==
    \A w \in Workers :
        (/\ Done(w) /\ req[w].url # <<>>
         /\ ~Escapes(req[w].url)
         /\ Kind(Target(req[w].url)) = "dir")
            => resp[w].status = 404

C8_Witness ==
    \E w \in Workers :
        /\ Done(w) /\ req[w] = [url |-> <<"d">>, endpoint |-> "serve_static"]
        /\ fs[PublicDir \o <<"d">>] = "dir"
        /\ resp[w].status = 404

\* C9: a request handled while another request was in flight is answered
\* as it is answered alone over the same directory.
C9_Independent ==
    \A w \in Workers :
        (Done(w) /\ ~solo[w]) => SameAnswer(resp[w], Alone(req[w]))

C9_Witness ==
    \E w1, w2 \in Workers :
        /\ Done(w1) /\ Done(w2) /\ ~solo[w1] /\ ~solo[w2]
        /\ req[w1].url # req[w2].url
        /\ resp[w1].status = 200 /\ resp[w2].status = 404

\* C10: for a request path that is not "/", the built-in static route and
\* serve_static give the same status and body.
C10_SameByEitherRoute ==
    \A w1, w2 \in Workers :
        (/\ Done(w1) /\ Done(w2) /\ req[w1].url = req[w2].url
         /\ req[w1].endpoint = "static" /\ req[w2].endpoint = "serve_static")
            => SameAnswer(resp[w1], resp[w2])

C10_Witness ==
    \E w1, w2 \in Workers :
        /\ Done(w1) /\ Done(w2) /\ req[w1].url = req[w2].url
        /\ req[w1].endpoint = "static" /\ req[w2].endpoint = "serve_static"
        /\ resp[w1].status = 200 /\ Len(req[w1].url) = 2

====
